---------------------------- MODULE Spec2Model ----------------------------
(***************************************************************************)
(* A model of the AetherSense chat backend (src/chat-bot/main.py): the     *)
(* keyword extractor, the model normaliser, the context enricher, the      *)
(* buffered reply generator, the streaming reply generator and the HTTP    *)
(* handlers in front of them.                                              *)
(*                                                                         *)
(* Python str values are sequences of one-character strings, so that       *)
(* substring tests, strip() and lower() are computed, not assumed.         *)
(* An Optional[str] is a sequence of length 0 (None) or 1 (the string).    *)
(***************************************************************************)
EXTENDS Integers, Sequences, FiniteSets, TLC

(***************************************************************************)
(* Bounds of the model                                                     *)
(***************************************************************************)
MaxWords == 2      \* words per text handed to the keyword extractor
MaxPad == 1        \* whitespace characters around a requested model name
MaxMsgs == 2       \* messages of a request's conversation
MaxChunks == 1     \* chunks the provider's stream delivers
CoordMax == 1      \* latitude and longitude range over -CoordMax..CoordMax

(***************************************************************************)
(* str helpers                                                             *)
(***************************************************************************)
UpperCase == <<"A","B","C","D","E","F","G","H","I","J","K","L","M","N","O","P","Q","R","S","T","U","V","W","X","Y","Z">>
LowerCase == <<"a","b","c","d","e","f","g","h","i","j","k","l","m","n","o","p","q","r","s","t","u","v","w","x","y","z">>
Whitespace == {" ", "\t", "\n"}

\* str.lower() on one character
LowerChar(c) ==
    IF \E i \in 1..Len(UpperCase) : UpperCase[i] = c
    THEN LowerCase[CHOOSE i \in 1..Len(UpperCase) : UpperCase[i] = c]
    ELSE c

\* str.lower()
Lower(s) == [i \in 1..Len(s) |-> LowerChar(s[i])]

\* str.strip()
RECURSIVE LStrip(_)
LStrip(s) == IF s # <<>> /\ Head(s) \in Whitespace THEN LStrip(Tail(s)) ELSE s
RECURSIVE RStrip(_)
RStrip(s) ==
    IF s # <<>> /\ s[Len(s)] \in Whitespace
    THEN RStrip(SubSeq(s, 1, Len(s) - 1))
    ELSE s
Strip(s) == RStrip(LStrip(s))

\* Python's  sub in s  on str: substring containment
Contains(s, sub) ==
    \E i \in 0..(Len(s) - Len(sub)) : SubSeq(s, i + 1, i + Len(sub)) = sub

\* sep.join(parts)
RECURSIVE Join(_, _)
Join(parts, sep) ==
    IF parts = <<>> THEN <<>>
    ELSE IF Len(parts) = 1 THEN parts[1]
    ELSE parts[1] \o sep \o Join(Tail(parts), sep)

\* the number of entries of a list equal to x
RECURSIVE Count(_, _)
Count(x, seq) ==
    IF seq = <<>> THEN 0
    ELSE (IF Head(seq) = x THEN 1 ELSE 0) + Count(x, Tail(seq))

\* any(keyword in category for keyword in keywords)
AnyIn(keywords, category) ==
    \E i \in 1..Len(keywords) : \E j \in 1..Len(category) : keywords[i] = category[j]

Range(seq) == {seq[i] : i \in 1..Len(seq)}

(***************************************************************************)
(* Configuration and fixed texts                                           *)
(***************************************************************************)
DEFAULT_MODEL == <<"g","p","t","-","5">>
GPT5 == <<"g","p","t","-","5">>
NoUserMessageFound == <<"N","o"," ","u","s","e","r"," ","m","e","s","s","a","g","e"," ","f","o","u","n","d">>
ErrorGeneratingReply == <<"E","r","r","o","r"," ","g","e","n","e","r","a","t","i","n","g"," ","r","e","p","l","y",":"," ">>
StreamDisabledFallback == <<"(","s","t","r","e","a","m"," ","d","i","s","a","b","l","e","d"," ","f","a","l","l","b","a","c","k",")","\n">>

(***************************************************************************)
(* Keyword extractor                                                       *)
(***************************************************************************)
space_keywords == <<
    <<"s","p","a","c","e">>, <<"m","a","r","s">>, <<"m","o","o","n">>, <<"s","u","n">>, <<"s","o","l","a","r">>, <<"a","s","t","e","r","o","i","d">>, <<"c","o","m","e","t">>, <<"p","l","a","n","e","t">>,
    <<"g","a","l","a","x","y">>, <<"s","t","a","r">>, <<"s","a","t","e","l","l","i","t","e">>, <<"o","r","b","i","t">>, <<"n","a","s","a">>, <<"a","s","t","r","o","n","o","m","y">>, <<"c","o","s","m","o","s">>,
    <<"u","n","i","v","e","r","s","e">>, <<"e","a","r","t","h">>, <<"w","e","a","t","h","e","r">>, <<"s","a","t","e","l","l","i","t","e">>, <<"i","m","a","g","e","r","y">>, <<"s","p","a","c","e"," ","w","e","a","t","h","e","r">> >>

\* the for loop of extract_space_keywords over vocabulary[k..]
RECURSIVE ScanKeywords(_, _, _)
ScanKeywords(vocabulary, message_lower, k) ==
    IF k > Len(vocabulary) THEN <<>>
    ELSE (IF Contains(message_lower, vocabulary[k]) THEN <<vocabulary[k]>> ELSE <<>>)
         \o ScanKeywords(vocabulary, message_lower, k + 1)

extract_space_keywords(message) == ScanKeywords(space_keywords, Lower(message), 1)

\* the message contents the chat requests draw from
Roles == {"user", "assistant"}
Contents == { <<>>, <<"h","e","l","l","o">>, <<"M","a","r","s"," ","w","e","a","t","h","e","r">>, <<"s","a","t","e","l","l","i","t","e">>, <<"S","t","a","r"," ","c","o","m","e","t">> }

\* extract_space_keywords tabulated over those contents (computed once)
KeywordsOfContent == [c \in Contents |-> extract_space_keywords(c)]

(***************************************************************************)
(* Model normalisation                                                     *)
(***************************************************************************)
\* normalize_model as the identity on every non-blank request
NormalizeIdentity(model) ==
    IF model = <<>> \/ Strip(model[1]) = <<>> THEN DEFAULT_MODEL ELSE model[1]

normalize_model(model) ==
    LET requested == Strip(IF model = <<>> THEN <<>> ELSE model[1])
    IN  IF requested = <<>> THEN DEFAULT_MODEL
        ELSE IF Lower(requested) = GPT5 THEN GPT5
        ELSE requested

(***************************************************************************)
(* Data fetchers: each returns a payload that either carries an "error"    *)
(* key or does not (get_nasa_* catch every exception themselves).          *)
(***************************************************************************)
Fetchers == {"apod", "neo", "mars_weather", "space_weather"}
Payloads == {"ok", "error"}

ApodKeywords == << <<"s","p","a","c","e">>, <<"a","s","t","r","o","n","o","m","y">>, <<"c","o","s","m","o","s">>, <<"u","n","i","v","e","r","s","e">>, <<"s","t","a","r">>, <<"g","a","l","a","x","y">> >>
NeoKeywords == << <<"a","s","t","e","r","o","i","d">>, <<"c","o","m","e","t">>, <<"n","e","o">>, <<"e","a","r","t","h">>, <<"o","r","b","i","t">> >>
MarsKeywords == << <<"m","a","r","s">>, <<"w","e","a","t","h","e","r">>, <<"p","l","a","n","e","t">> >>
SpaceWeatherKeywords == << <<"s","p","a","c","e"," ","w","e","a","t","h","e","r">>, <<"s","o","l","a","r">>, <<"s","u","n">>, <<"w","e","a","t","h","e","r">> >>

(***************************************************************************)
(* Context enricher                                                        *)
(***************************************************************************)
\* LastUserMessage passing over user messages with empty content: the newest
\* non-empty user message
RECURSIVE LastNonEmptyUserMessage(_)
LastNonEmptyUserMessage(messages) ==
    IF messages = <<>> THEN <<>>
    ELSE IF /\ messages[Len(messages)].role = "user"
            /\ messages[Len(messages)].content # <<>>
         THEN <<messages[Len(messages)].content>>
    ELSE LastNonEmptyUserMessage(SubSeq(messages, 1, Len(messages) - 1))

\* LastUserMessage without the test of the role: the newest message of any role
LastMessageAnyRole(messages) ==
    IF messages = <<>> THEN <<>> ELSE <<messages[Len(messages)].content>>

\* for msg in reversed(messages): if role == "user": content; break
RECURSIVE LastUserMessage(_)
LastUserMessage(messages) ==
    IF messages = <<>> THEN <<>>
    ELSE IF messages[Len(messages)].role = "user" THEN <<messages[Len(messages)].content>>
    ELSE LastUserMessage(SubSeq(messages, 1, Len(messages) - 1))

\* Python truthiness of an Optional[str]
Falsy(opt) == opt = <<>> \/ opt[1] = <<>>

\* FetchersInvoked with the four tests chained by elif: the first match only
FetchersInvokedElif(keywords) ==
    IF AnyIn(keywords, ApodKeywords) THEN <<"apod">>
    ELSE IF AnyIn(keywords, NeoKeywords) THEN <<"neo">>
    ELSE IF AnyIn(keywords, MarsKeywords) THEN <<"mars_weather">>
    ELSE IF AnyIn(keywords, SpaceWeatherKeywords) THEN <<"space_weather">>
    ELSE <<>>

\* the fetchers the four category tests invoke, in the order of the code
FetchersInvoked(keywords) ==
    (IF AnyIn(keywords, ApodKeywords) THEN <<"apod">> ELSE <<>>)
    \o (IF AnyIn(keywords, NeoKeywords) THEN <<"neo">> ELSE <<>>)
    \o (IF AnyIn(keywords, MarsKeywords) THEN <<"mars_weather">> ELSE <<>>)
    \o (IF AnyIn(keywords, SpaceWeatherKeywords) THEN <<"space_weather">> ELSE <<>>)

\* the briefing text; the payload fields themselves are not modelled
NasaContext(keywords, nasa_data) ==
    <<"R","E","A","L"," ","N","A","S","A"," ","D","A","T","A"," ","F","E","T","C","H","E","D",":"," ","-"," ","S","p","a","c","e"," ","k","e","y","w","o","r","d","s"," ","d","e","t","e","c","t","e","d",":"," ">> \o Join(keywords, <<","," ">>)
    \o (IF "apod" \in nasa_data THEN <<" ","A","S","T","R","O","N","O","M","Y"," ","P","I","C","T","U","R","E"," ","O","F"," ","T","H","E"," ","D","A","Y",":">> ELSE <<>>)
    \o (IF "neo" \in nasa_data THEN <<" ","N","E","A","R"," ","E","A","R","T","H"," ","O","B","J","E","C","T","S"," ","T","O","D","A","Y",":">> ELSE <<>>)
    \o (IF "mars_weather" \in nasa_data THEN <<" ","M","A","R","S"," ","W","E","A","T","H","E","R",":">> ELSE <<>>)
    \o (IF "space_weather" \in nasa_data THEN <<" ","S","P","A","C","E"," ","W","E","A","T","H","E","R",":">> ELSE <<>>)
    \o <<" ","U","s","e"," ","t","h","i","s"," ","R","E","A","L"," ","N","A","S","A"," ","d","a","t","a"," ","t","o"," ","p","r","o","v","i","d","e"," ","a","c","c","u","r","a","t","e",","," ","d","a","t","a","-","d","r","i","v","e","n"," ","r","e","s","p","o","n","s","e","s",".">>

\* the payloads the called fetchers returned, in the order of the calls
PayloadsOf(calls, fetch) == [i \in 1..Len(calls) |-> fetch[calls[i]]]

\* the record kept of one call of the enricher: its argument, what it returned,
\* the fetchers it called with their payloads, and the caller's list afterwards
EnhCall(messages, e) ==
    [messages |-> messages, result |-> e.messages, calls |-> e.calls,
     payloads |-> e.payloads, caller |-> e.caller]

\* enhance_prompt_with_nasa_data reading the oldest user message (the scan
\* without reversed) instead of the newest
RECURSIVE FirstUserMessage(_)
FirstUserMessage(messages) ==
    IF messages = <<>> THEN <<>>
    ELSE IF Head(messages).role = "user" THEN <<Head(messages).content>>
    ELSE FirstUserMessage(Tail(messages))

EnhanceOldestUserMessage(messages, fetch) ==
    LET user_message == FirstUserMessage(messages)
    IN  IF Falsy(user_message)
        THEN [messages |-> messages, calls |-> <<>>, payloads |-> <<>>,
              caller |-> messages]
        ELSE LET keywords == KeywordsOfContent[user_message[1]]
                 calls == FetchersInvoked(keywords)
                 nasa_data == {f \in Range(calls) : fetch[f] # "error"}
             IN  IF keywords # <<>> /\ nasa_data # {}
                 THEN [messages |-> <<[role |-> "system",
                                       content |-> NasaContext(keywords, nasa_data)]>>
                                    \o messages,
                       calls |-> calls,
                       payloads |-> PayloadsOf(calls, fetch),
                       caller |-> messages]
                 ELSE [messages |-> messages,
                       calls |-> IF keywords # <<>> THEN calls ELSE <<>>,
                       payloads |-> IF keywords # <<>> THEN PayloadsOf(calls, fetch)
                                    ELSE <<>>,
                       caller |-> messages]

\* enhance_prompt_with_nasa_data inserting the briefing into the caller's list
\* (messages.insert without messages.copy)
EnhanceInPlace(messages, fetch) ==
    LET user_message == LastUserMessage(messages)
    IN  IF Falsy(user_message)
        THEN [messages |-> messages, calls |-> <<>>, payloads |-> <<>>,
              caller |-> messages]
        ELSE LET keywords == KeywordsOfContent[user_message[1]]
                 calls == FetchersInvoked(keywords)
                 nasa_data == {f \in Range(calls) : fetch[f] # "error"}
                 enhanced == <<[role |-> "system",
                                content |-> NasaContext(keywords, nasa_data)]>>
                             \o messages
             IN  IF keywords # <<>> /\ nasa_data # {}
                 THEN [messages |-> enhanced,
                       calls |-> calls,
                       payloads |-> PayloadsOf(calls, fetch),
                       caller |-> enhanced]
                 ELSE [messages |-> messages,
                       calls |-> IF keywords # <<>> THEN calls ELSE <<>>,
                       payloads |-> IF keywords # <<>> THEN PayloadsOf(calls, fetch)
                                    ELSE <<>>,
                       caller |-> messages]

\* enhance_prompt_with_nasa_data without the  "error" not in  tests: every
\* payload received is kept in nasa_data
EnhanceKeepsFailedPayloads(messages, fetch) ==
    LET user_message == LastUserMessage(messages)
    IN  IF Falsy(user_message)
        THEN [messages |-> messages, calls |-> <<>>, payloads |-> <<>>,
              caller |-> messages]
        ELSE LET keywords == KeywordsOfContent[user_message[1]]
                 calls == FetchersInvoked(keywords)
                 nasa_data == Range(calls)
             IN  IF keywords # <<>> /\ nasa_data # {}
                 THEN [messages |-> <<[role |-> "system",
                                       content |-> NasaContext(keywords, nasa_data)]>>
                                    \o messages,
                       calls |-> calls,
                       payloads |-> PayloadsOf(calls, fetch),
                       caller |-> messages]
                 ELSE [messages |-> messages,
                       calls |-> IF keywords # <<>> THEN calls ELSE <<>>,
                       payloads |-> IF keywords # <<>> THEN PayloadsOf(calls, fetch)
                                    ELSE <<>>,
                       caller |-> messages]

\* fetch[f] is the payload fetcher f returns if it is called.
\* The result: the conversation returned and the fetchers called, in order.
enhance_prompt_with_nasa_data(messages, fetch) ==
    LET user_message == LastUserMessage(messages)
    IN  IF Falsy(user_message)
        THEN [messages |-> messages, calls |-> <<>>, payloads |-> <<>>,
              caller |-> messages]
        ELSE LET keywords == KeywordsOfContent[user_message[1]]
                 calls == FetchersInvoked(keywords)
                 nasa_data == {f \in Range(calls) : fetch[f] # "error"}
             IN  IF keywords # <<>> /\ nasa_data # {}
                 THEN [messages |-> <<[role |-> "system",
                                       content |-> NasaContext(keywords, nasa_data)]>>
                                    \o messages,
                       calls |-> calls,
                       payloads |-> PayloadsOf(calls, fetch),
                       caller |-> messages]
                 ELSE [messages |-> messages,
                       calls |-> IF keywords # <<>> THEN calls ELSE <<>>,
                       payloads |-> IF keywords # <<>> THEN PayloadsOf(calls, fetch)
                                    ELSE <<>>,
                       caller |-> messages]

(***************************************************************************)
(* Chat-completion provider: what one call of client.chat.completions      *)
(* .create does.  "content": a reply with text; "none": a reply whose      *)
(* content is None; "raise": the call raises, str(e) is the text.          *)
(***************************************************************************)
ChatOutcomes ==
    { [kind |-> "content", text |-> <<"H","i">>],
      [kind |-> "none", text |-> <<>>],
      [kind |-> "raise", text |-> <<"t","i","m","e","o","u","t">>] }

ChatCall(mdl, messages, stream, outcome) ==
    [model |-> mdl, messages |-> messages, stream |-> stream,
     outcome |-> outcome.kind, text |-> outcome.text]

(***************************************************************************)
(* Reply generator (buffered).  env.fetch: the fetchers' payloads,         *)
(* env.chat: the provider's outcome.  The result records the text          *)
(* returned (or, with raised, the exception that left the function), the   *)
(* fetchers called, the provider calls made and the enricher calls made.   *)
(***************************************************************************)
\* the body of the try block
GenerateReplyTry(model, messages, env) ==
    LET user_message == LastUserMessage(messages)
    IN  IF Falsy(user_message)
        THEN [raised |-> FALSE, text |-> NoUserMessageFound,
              fetches |-> <<>>, chats |-> <<>>, enh |-> <<>>]
        ELSE LET space_keywords_found == KeywordsOfContent[user_message[1]]
                 e == enhance_prompt_with_nasa_data(messages, env.fetch)
                 enhanced == space_keywords_found # <<>>
                 sent == IF enhanced THEN e.messages ELSE messages
                 mdl == normalize_model(<<model>>)
             IN  [raised |-> env.chat.kind = "raise",
                  text |-> env.chat.text,
                  fetches |-> IF enhanced THEN e.calls ELSE <<>>,
                  chats |-> <<ChatCall(mdl, sent, FALSE, env.chat)>>,
                  enh |-> IF enhanced
                          THEN <<EnhCall(messages, e)>>
                          ELSE <<>>]

\* generate_reply without its except clause: the exception leaves the function
GenerateReplyPropagating(model, messages, env) == GenerateReplyTry(model, messages, env)

\* try: ... except Exception as e: return f"Error generating reply: {e}"
generate_reply(model, messages, env) ==
    LET r == GenerateReplyTry(model, messages, env)
    IN  IF r.raised
        THEN [r EXCEPT !.raised = FALSE, !.text = ErrorGeneratingReply \o r.text]
        ELSE r

\* the record kept of one call of generate_reply
GenCall(model, messages, r) ==
    [model |-> model, messages |-> messages, raised |-> r.raised, text |-> r.text,
     fetches |-> r.fetches, chats |-> r.chats]

(***************************************************************************)
(* GET /api/nasa/earth-imagery.  payload: what get_nasa_earth_imagery      *)
(* returns if it is called.                                                *)
(***************************************************************************)
LatLonRequired == <<"L","a","t","i","t","u","d","e"," ","a","n","d"," ","l","o","n","g","i","t","u","d","e"," ","a","r","e"," ","r","e","q","u","i","r","e","d">>
FailedToFetchImagery == <<"F","a","i","l","e","d"," ","t","o"," ","f","e","t","c","h"," ","E","a","r","t","h"," ","i","m","a","g","e","r","y">>

\* nasa_earth_imagery rejecting a request when either coordinate is zero
EarthImageryEitherZero(lat, lon, payload) ==
    IF lat = 0 \/ lon = 0
    THEN [status |-> 400, body |-> LatLonRequired, calls |-> <<>>]
    ELSE [status |-> IF payload = "error" THEN 500 ELSE 200,
          body |-> IF payload = "error" THEN FailedToFetchImagery ELSE <<>>,
          calls |-> <<[lat |-> lat, lon |-> lon, payload |-> payload]>>]

nasa_earth_imagery(lat, lon, payload) ==
    IF lat = 0 /\ lon = 0
    THEN [status |-> 400, body |-> LatLonRequired, calls |-> <<>>]
    ELSE [status |-> IF payload = "error" THEN 500 ELSE 200,
          body |-> IF payload = "error" THEN FailedToFetchImagery ELSE <<>>,
          calls |-> <<[lat |-> lat, lon |-> lon, payload |-> payload]>>]

(***************************************************************************)
(* Inputs of the pure functions                                            *)
(***************************************************************************)
Words == { <<"M","a","r","s">>, <<"w","e","a","t","h","e","r">>, <<"s","a","t","e","l","l","i","t","e">>, <<"S","U","N">>, <<"s","t","a","r","t">>, <<"s","p","a","c","e">>, <<"h","e","l","l","o">>, <<"E","a","r","t","h">> }

RECURSIVE TextsOfLen(_)
TextsOfLen(n) ==
    IF n = 0 THEN {<<>>}
    ELSE IF n = 1 THEN Words
    ELSE {t \o <<" ">> \o w : t \in TextsOfLen(n - 1), w \in Words}

Texts == UNION {TextsOfLen(n) : n \in 0..MaxWords}

RECURSIVE Pads(_)
Pads(n) == IF n = 0 THEN {<<>>} ELSE Pads(n - 1) \cup {p \o <<c>> : p \in Pads(n - 1), c \in {" ", "\t"}}

ModelNames == { <<>>, <<"g","p","t","-","5">>, <<"G","P","T","-","5">>, <<"G","p","t","-","5">>, <<"g","p","t","-","4","o">>, <<"G","P","T","-","4","o">>, <<"g","p","t"," ","5">> }

ModelInputs == {<<>>} \cup {<<l \o m \o r>> : l \in Pads(MaxPad), m \in ModelNames, r \in Pads(MaxPad)}

(***************************************************************************)
(* Inputs of the HTTP handlers                                             *)
(***************************************************************************)
\* a user message carries any of the contents; what the other roles say is never
\* read by the code, so they carry one text without and one with keywords
Messages ==
    [role : {"user"}, content : Contents]
    \cup [role : Roles \ {"user"}, content : {<<"h","e","l","l","o">>, <<"M","a","r","s"," ","w","e","a","t","h","e","r">>}]

RECURSIVE ConversationsOfLen(_)
ConversationsOfLen(n) ==
    IF n = 0 THEN {<<>>}
    ELSE {Append(c, m) : c \in ConversationsOfLen(n - 1), m \in Messages}

Conversations == UNION {ConversationsOfLen(n) : n \in 0..MaxMsgs}

\* ChatRequest: messages and the Optional model
ChatRequests == [messages : Conversations, model : {<<>>, << <<" ","G","P","T","-","5">> >>}]

\* the payloads the fetchers may return to a request with these messages: only
\* the fetchers its keywords select are ever called, the others are left "ok"
FetchOutcomes(messages) ==
    LET user_message == LastUserMessage(messages)
        called == IF Falsy(user_message) THEN {}
                  ELSE Range(FetchersInvoked(KeywordsOfContent[user_message[1]]))
    IN  {fetch \in [Fetchers -> Payloads] : \A f \in Fetchers \ called : fetch[f] = "ok"}

Envs(messages) == [fetch : FetchOutcomes(messages), chat : ChatOutcomes]

\* the content of one chunk's delta (empty: no content)
Deltas == {<<>>, <<"t","o","k">>}

Coords == (0 - CoordMax)..CoordMax

NoRequest == [messages |-> <<>>, model |-> <<>>]

(***************************************************************************)
(* State                                                                   *)
(*   pc        where the request in progress stands                        *)
(*   endpoint  the route that received it                                  *)
(*   request   the ChatRequest, query the (lat, lon) of an imagery request *)
(*   status, body  the HTTP status and the reply text or error detail      *)
(*   emitted   the fragments the streaming generator has yielded           *)
(*   consumed  the chunks taken from the provider's stream                 *)
(*   streamFailed  the generator's except clause has run                   *)
(*   fetchLog, chatLog, imageryLog  the outbound calls of this request     *)
(*   enhLog, genLog  the calls of the enricher and of generate_reply       *)
(***************************************************************************)
VARIABLES pc, endpoint, request, query, status, body, emitted, consumed,
          streamFailed, fetchLog, chatLog, imageryLog, enhLog, genLog

VARIABLES fnText, fnModel, fnKeywords, fnNormalized, fnDone

srvVars == <<pc, endpoint, request, query, status, body, emitted, consumed,
             streamFailed, fetchLog, chatLog, imageryLog, enhLog, genLog>>

fnVars == <<fnText, fnModel, fnKeywords, fnNormalized, fnDone>>

vars == <<srvVars, fnVars>>

InitSrv ==
    /\ pc = "idle"
    /\ endpoint = "none"
    /\ request = NoRequest
    /\ query = <<0, 0>>
    /\ status = 0
    /\ body = <<>>
    /\ emitted = <<>>
    /\ consumed = 0
    /\ streamFailed = FALSE
    /\ fetchLog = <<>>
    /\ chatLog = <<>>
    /\ imageryLog = <<>>
    /\ enhLog = <<>>
    /\ genLog = <<>>

IdleFn ==
    /\ fnText = <<>>
    /\ fnModel = <<>>
    /\ fnKeywords = <<>>
    /\ fnNormalized = <<>>
    /\ fnDone = {}

Init == InitSrv /\ IdleFn

\* model = request.model or DEFAULT_MODEL
RequestedModel(req) == IF Falsy(req.model) THEN DEFAULT_MODEL ELSE req.model[1]

\* POST /api/chat
chat_non_streaming ==
    /\ pc = "idle"
    /\ \E req \in ChatRequests : \E env \in Envs(req.messages) :
        LET messages == req.messages
            model == RequestedModel(req)
            r == generate_reply(model, messages, env)
        IN  /\ request' = req
            /\ status' = IF r.raised THEN 500 ELSE 200
            /\ body' = r.text
            /\ fetchLog' = r.fetches
            /\ chatLog' = r.chats
            /\ enhLog' = r.enh
            /\ genLog' = <<GenCall(model, messages, r)>>
    /\ endpoint' = "chat"
    /\ pc' = "done"
    /\ UNCHANGED <<query, emitted, consumed, streamFailed, imageryLog>>
    /\ UNCHANGED fnVars

\* POST /api/chat/stream: the handler returns the StreamingResponse around the
\* generator, which has not started
chat_stream ==
    /\ pc = "idle"
    /\ \E req \in ChatRequests : request' = req
    /\ endpoint' = "stream"
    /\ status' = 200
    /\ pc' = "generator"
    /\ UNCHANGED <<query, body, emitted, consumed, streamFailed, fetchLog, chatLog,
                   imageryLog, enhLog, genLog>>
    /\ UNCHANGED fnVars

\* stream_tokens_from_openai up to the for loop: enrich, then open the stream
stream_create ==
    /\ pc = "generator"
    /\ \E fetch \in FetchOutcomes(request.messages), opened \in {"stream", "raise"} :
        LET messages == request.messages
            e == enhance_prompt_with_nasa_data(messages, fetch)
            mdl == normalize_model(<<RequestedModel(request)>>)
        IN  /\ fetchLog' = fetchLog \o e.calls
            /\ enhLog' = Append(enhLog, EnhCall(messages, e))
            /\ request' = [request EXCEPT !.messages = e.caller]
            /\ chatLog' = Append(chatLog, ChatCall(mdl, e.messages, TRUE,
                                                  [kind |-> opened, text |-> <<>>]))
            /\ pc' = IF opened = "raise" THEN "except" ELSE "streaming"
    /\ UNCHANGED <<endpoint, query, status, body, emitted, consumed,
                   streamFailed, imageryLog, genLog>>
    /\ UNCHANGED fnVars

\* one iteration of  for chunk in stream:  a delta with content is yielded
stream_chunk ==
    /\ pc = "streaming"
    /\ consumed < MaxChunks
    /\ \E delta \in Deltas :
        emitted' = IF delta # <<>> THEN Append(emitted, delta) ELSE emitted
    /\ consumed' = consumed + 1
    /\ UNCHANGED <<pc, endpoint, request, query, status, body, streamFailed, fetchLog,
                   chatLog, imageryLog, enhLog, genLog>>
    /\ UNCHANGED fnVars

\* the stream raises while the generator waits for the next chunk
stream_raise ==
    /\ pc = "streaming"
    /\ pc' = "except"
    /\ UNCHANGED <<endpoint, request, query, status, body, emitted, consumed,
                   streamFailed, fetchLog, chatLog, imageryLog, enhLog, genLog>>
    /\ UNCHANGED fnVars

\* the provider signals completion: the generator returns
stream_end ==
    /\ pc = "streaming"
    /\ pc' = "done"
    /\ UNCHANGED <<endpoint, request, query, status, body, emitted, consumed,
                   streamFailed, fetchLog, chatLog, imageryLog, enhLog, genLog>>
    /\ UNCHANGED fnVars

\* except Exception: yield the fallback marker and generate_reply's text
stream_except ==
    /\ pc = "except"
    /\ \E env \in Envs(request.messages) :
        LET messages == request.messages
            model == RequestedModel(request)
            r == generate_reply(model, messages, env)
        IN  /\ emitted' = IF r.raised THEN emitted
                          ELSE Append(emitted, StreamDisabledFallback \o r.text)
            /\ fetchLog' = fetchLog \o r.fetches
            /\ chatLog' = chatLog \o r.chats
            /\ enhLog' = enhLog \o r.enh
            /\ genLog' = Append(genLog, GenCall(model, messages, r))
    /\ streamFailed' = TRUE
    /\ pc' = "done"
    /\ UNCHANGED <<endpoint, request, query, status, body, consumed, imageryLog>>
    /\ UNCHANGED fnVars

\* GET /api/nasa/earth-imagery
earth_imagery ==
    /\ pc = "idle"
    /\ \E lat \in Coords, lon \in Coords, payload \in Payloads :
        LET r == nasa_earth_imagery(lat, lon, payload)
        IN  /\ query' = <<lat, lon>>
            /\ status' = r.status
            /\ body' = r.body
            /\ imageryLog' = r.calls
    /\ endpoint' = "imagery"
    /\ pc' = "done"
    /\ UNCHANGED <<request, emitted, consumed, streamFailed, fetchLog, chatLog,
                   enhLog, genLog>>
    /\ UNCHANGED fnVars

\* the response is complete; the request-scoped state is dropped
next_request ==
    /\ pc = "done"
    /\ pc' = "idle"
    /\ endpoint' = "none"
    /\ request' = NoRequest
    /\ query' = <<0, 0>>
    /\ status' = 0
    /\ body' = <<>>
    /\ emitted' = <<>>
    /\ consumed' = 0
    /\ streamFailed' = FALSE
    /\ fetchLog' = <<>>
    /\ chatLog' = <<>>
    /\ imageryLog' = <<>>
    /\ enhLog' = <<>>
    /\ genLog' = <<>>
    /\ UNCHANGED fnVars

Next ==
    \/ chat_non_streaming
    \/ chat_stream
    \/ stream_create
    \/ stream_chunk
    \/ stream_raise
    \/ stream_end
    \/ stream_except
    \/ earth_imagery
    \/ next_request

Spec == Init /\ [][Next]_vars

(***************************************************************************)
(* The pure functions applied to inputs of their own                       *)
(***************************************************************************)
InitFn ==
    /\ InitSrv
    /\ \/ fnText \in Texts /\ fnModel = <<>>
       \/ fnText = <<>> /\ fnModel \in ModelInputs
    /\ fnKeywords = <<>>
    /\ fnNormalized = <<>>
    /\ fnDone = {}

ExtractCall ==
    /\ "extract" \notin fnDone
    /\ fnKeywords' = extract_space_keywords(fnText)
    /\ fnDone' = fnDone \cup {"extract"}
    /\ UNCHANGED <<fnText, fnModel, fnNormalized>>
    /\ UNCHANGED srvVars

NormalizeCall ==
    /\ "normalize" \notin fnDone
    /\ fnNormalized' = normalize_model(fnModel)
    /\ fnDone' = fnDone \cup {"normalize"}
    /\ UNCHANGED <<fnText, fnModel, fnKeywords>>
    /\ UNCHANGED srvVars

NextFn == ExtractCall \/ NormalizeCall

SpecFn == InitFn /\ [][NextFn]_vars

(***************************************************************************)
(* Properties                                                              *)
(***************************************************************************)
\* the calls of the enricher and of generate_reply made so far
EnhCalls == {enhLog[i] : i \in 1..Len(enhLog)}
GenCalls == {genLog[i] : i \in 1..Len(genLog)}

\* a text holds no vocabulary keyword (in any letter case)
HasNoKeyword(text) ==
    \A k \in 1..Len(space_keywords) : ~Contains(Lower(text), space_keywords[k])
ContentsWithoutKeyword == {c \in Contents : HasNoKeyword(c)}

\* the category list each fetcher is selected by
CategoryOf(f) ==
    CASE f = "apod" -> ApodKeywords
      [] f = "neo" -> NeoKeywords
      [] f = "mars_weather" -> MarsKeywords
      [] f = "space_weather" -> SpaceWeatherKeywords

\* the keywords matched in the newest user message of a conversation
MatchedKeywords(messages) ==
    LET um == LastUserMessage(messages)
    IN  IF Falsy(um) THEN {} ELSE Range(KeywordsOfContent[um[1]])

StreamDone == endpoint = "stream" /\ pc = "done"
ChatDone == endpoint = "chat" /\ pc = "done"

\* C1: when the streaming call fails, at setup or mid-stream, the whole output
\* of the request is one fragment: the fallback marker followed by the text
\* generate_reply returns for the same input.
C1_FallbackIsWholeOutput ==
    (StreamDone /\ streamFailed) =>
        /\ Len(emitted) = 1
        /\ emitted[1] = StreamDisabledFallback \o genLog[Len(genLog)].text

\* C2: while one chat request is handled, the fallback of the streamer
\* included, no data fetcher is called more than once, and at the end of the
\* request every fetcher whose category matches was called exactly once.
C2_EachFetcherOncePerRequest ==
    /\ \A f \in Fetchers : Count(f, fetchLog) <= 1
    /\ (ChatDone \/ StreamDone) =>
         \A f \in Fetchers :
            (MatchedKeywords(request.messages) \cap Range(CategoryOf(f)) # {})
                => Count(f, fetchLog) = 1

\* C3: when the newest user message holds no vocabulary keyword, the enricher
\* returns the conversation unchanged and calls no fetcher.
C3_NoKeywordNoEnrichment ==
    \A c \in EnhCalls :
        LET um == LastUserMessage(c.messages)
        IN  (um # <<>> /\ um[1] \in ContentsWithoutKeyword)
                => c.result = c.messages /\ c.calls = <<>>

\* C3 witness: the enricher has run on a conversation whose newest user
\* message is a non-empty text without keywords, below an older user message
\* with keywords.
C3_Witness ==
    \E c \in EnhCalls :
        /\ Len(c.messages) = 2
        /\ c.messages[1] = [role |-> "user", content |-> <<"M","a","r","s"," ","w","e","a","t","h","e","r">>]
        /\ c.messages[2] = [role |-> "user", content |-> <<"h","e","l","l","o">>]
        /\ c.result = c.messages

\* C4: for a conversation without a user-role message generate_reply returns
\* "No user message found" and makes no outbound call.
C4_NoUserNoOutboundCall ==
    \A g \in GenCalls :
        (\A i \in 1..Len(g.messages) : g.messages[i].role # "user")
            => /\ ~g.raised
               /\ g.text = NoUserMessageFound
               /\ g.fetches = <<>>
               /\ g.chats = <<>>

\* C4 witness: generate_reply has answered a non-empty conversation that
\* holds keywords but no user message.
C4_Witness ==
    /\ ChatDone
    /\ request.messages = <<[role |-> "assistant", content |-> <<"M","a","r","s"," ","w","e","a","t","h","e","r">>]>>
    /\ body = NoUserMessageFound
    /\ chatLog = <<>>

\* C5: in one call of the enricher each fetcher is called exactly once if the
\* matched keywords meet its category list and not at all otherwise, whatever
\* the other categories are and whatever the other fetchers returned.
C5_CategoriesIndependent ==
    \A c \in EnhCalls : \A f \in Fetchers :
        Count(f, c.calls) =
            IF MatchedKeywords(c.messages) \cap Range(CategoryOf(f)) # {} THEN 1 ELSE 0

\* C5 witness: for "Mars weather" the planetary-weather fetcher and the alerts
\* fetcher were both called, although neither returned a payload.
C5_Witness ==
    \E c \in EnhCalls :
        /\ LastUserMessage(c.messages) = << <<"M","a","r","s"," ","w","e","a","t","h","e","r">> >>
        /\ c.calls = <<"mars_weather", "space_weather">>
        /\ c.result = c.messages

\* the provider call of a finished POST /api/chat raised
ChatProviderFailed == ChatDone /\ chatLog # <<>> /\ chatLog[1].outcome = "raise"

\* C6 as stated: a provider failure during POST /api/chat is answered with
\* HTTP 500 whose detail is the underlying message.
C6_ProviderFailureIs500 ==
    ChatProviderFailed => status = 500 /\ body = chatLog[1].text

\* C6 as amended: a provider failure during POST /api/chat is answered with
\* HTTP 200 and the reply "Error generating reply: " followed by the
\* underlying message; POST /api/chat never answers with an HTTP error.
C6_ProviderFailureIsReply ==
    /\ ChatProviderFailed =>
          status = 200 /\ body = ErrorGeneratingReply \o chatLog[1].text
    /\ ChatDone => status = 200

\* C6 witness: POST /api/chat has finished after its provider call raised.
C6_Witness == ChatProviderFailed /\ chatLog[1].text = <<"t","i","m","e","o","u","t">>

\* C7: no call of generate_reply lets an exception out: each returns a text,
\* and where the provider call raised the text is the error description.
C7_GenerateReplyNeverRaises ==
    \A g \in GenCalls :
        /\ ~g.raised
        /\ (g.chats # <<>> /\ g.chats[1].outcome = "raise")
              => g.text = ErrorGeneratingReply \o g.chats[1].text

\* C7 witness: generate_reply, called by the streamer's fallback with an
\* enriched conversation, returned after its provider call raised.
C7_Witness ==
    /\ StreamDone
    /\ \E g \in GenCalls :
          /\ g.chats # <<>>
          /\ g.chats[1].outcome = "raise"
          /\ g.fetches # <<>>

\* the requested model is absent or blank
BlankModel(model) == model = <<>> \/ Strip(model[1]) = <<>>

\* C8 as stated: normalize_model returns the default for an absent or blank
\* request and every other request unchanged, character for character.
C8_NormalizeIsIdentity ==
    ("normalize" \in fnDone) =>
        fnNormalized = IF BlankModel(fnModel) THEN DEFAULT_MODEL ELSE fnModel[1]

\* C8 as amended: normalize_model returns the default for an absent or blank
\* request; otherwise the request without its leading and trailing
\* whitespace, and "gpt-5" for every letter-case spelling of gpt-5.  It
\* returns a non-blank request unchanged exactly when the request has no
\* surrounding whitespace and is not a differently cased spelling of gpt-5.
C8_NormalizeStripsAndFolds ==
    ("normalize" \in fnDone) =>
        /\ BlankModel(fnModel) => fnNormalized = DEFAULT_MODEL
        /\ ~BlankModel(fnModel) =>
              /\ fnNormalized =
                    IF Lower(Strip(fnModel[1])) = GPT5 THEN GPT5 ELSE Strip(fnModel[1])
              /\ (fnNormalized = fnModel[1]) <=>
                    /\ Strip(fnModel[1]) = fnModel[1]
                    /\ (Lower(fnModel[1]) = GPT5 => fnModel[1] = GPT5)

\* C8 witness: a padded upper-case request was normalised to "gpt-5".
C8_Witness ==
    /\ "normalize" \in fnDone
    /\ fnModel = << <<" ","G","P","T","-","5">> >>
    /\ fnNormalized = <<"g","p","t","-","5">>

\* C9: the keyword extractor's result lists no term twice, follows the
\* order of the vocabulary and holds vocabulary terms only.
C9_KeywordsOncePerTerm ==
    ("extract" \in fnDone) =>
        /\ \A i, j \in 1..Len(fnKeywords) : i # j => fnKeywords[i] # fnKeywords[j]
        /\ Range(fnKeywords) \subseteq Range(space_keywords)
        /\ \A i, j \in 1..Len(fnKeywords) :
              i < j => \E a, b \in 1..Len(space_keywords) :
                          /\ a < b
                          /\ space_keywords[a] = fnKeywords[i]
                          /\ space_keywords[b] = fnKeywords[j]

\* C10: GET /api/nasa/earth-imagery answers 400 without calling the fetcher
\* exactly when lat and lon are both zero; otherwise it calls the fetcher
\* once and answers 500 on a failure payload and 200 on any other.
C10_EarthImageryStatus ==
    (endpoint = "imagery" /\ pc = "done") =>
        IF query = <<0, 0>>
        THEN status = 400 /\ imageryLog = <<>>
        ELSE /\ Len(imageryLog) = 1
             /\ imageryLog[1].lat = query[1] /\ imageryLog[1].lon = query[2]
             /\ status = IF imageryLog[1].payload = "error" THEN 500 ELSE 200

\* C10 witness: a request with one zero coordinate reached the fetcher and
\* was answered 200.
C10_Witness ==
    /\ endpoint = "imagery" /\ pc = "done"
    /\ query[1] = 0 /\ query[2] # 0
    /\ Len(imageryLog) = 1
    /\ status = 200

\* the first line of every briefing
BriefingHeader == <<"R","E","A","L"," ","N","A","S","A"," ","D","A","T","A"," ","F","E","T","C","H","E","D",":">>

\* a message is a briefing: a system message whose text opens with the header
IsBriefing(msg) ==
    /\ msg.role = "system"
    /\ Len(msg.content) >= Len(BriefingHeader)
    /\ SubSeq(msg.content, 1, Len(BriefingHeader)) = BriefingHeader

\* C11: the enricher returns either its input or its input with one system
\* briefing inserted at position zero, the original messages following in
\* their order and content; the caller's list is the same after the call.
C11_EnricherOnlyPrepends ==
    \A c \in EnhCalls :
        /\ c.caller = c.messages
        /\ \/ c.result = c.messages
           \/ /\ Len(c.result) = Len(c.messages) + 1
              /\ IsBriefing(c.result[1])
              /\ \A i \in 1..Len(c.messages) : c.result[i + 1] = c.messages[i]

\* C11 witness: the enricher put a briefing before a conversation of two
\* messages and the streamer's fallback then ran on the conversation as sent.
C11_Witness ==
    /\ StreamDone /\ streamFailed
    /\ \E c \in EnhCalls :
          /\ Len(c.messages) = 2
          /\ Len(c.result) = 3
          /\ c.messages = request.messages
    /\ genLog # <<>>
    /\ genLog[1].messages = request.messages

\* the text that opens each fetcher's section of the briefing
SectionTitle(f) ==
    CASE f = "apod" -> <<"A","S","T","R","O","N","O","M","Y"," ","P","I","C","T","U","R","E"," ","O","F"," ","T","H","E"," ","D","A","Y",":">>
      [] f = "neo" -> <<"N","E","A","R"," ","E","A","R","T","H"," ","O","B","J","E","C","T","S"," ","T","O","D","A","Y",":">>
      [] f = "mars_weather" -> <<"M","A","R","S"," ","W","E","A","T","H","E","R",":">>
      [] f = "space_weather" -> <<"S","P","A","C","E"," ","W","E","A","T","H","E","R",":">>

\* the fetchers of an enricher call that returned a payload without an error
Succeeded(c) == {c.calls[i] : i \in {j \in 1..Len(c.calls) : c.payloads[j] # "error"}}

\* C12: in the enricher a failed payload adds no section and stops no other
\* fetcher; with keywords matched, the conversation is returned unmodified if
\* no fetcher succeeded (or none was selected), and otherwise a briefing is
\* prepended whose sections are those of the successful payloads only.
C12_FetcherFailureSwallowed ==
    \A c \in EnhCalls :
        (MatchedKeywords(c.messages) # {}) =>
            /\ \A f \in Fetchers :
                  (MatchedKeywords(c.messages) \cap Range(CategoryOf(f)) # {})
                      => Count(f, c.calls) = 1
            /\ Len(c.payloads) = Len(c.calls)
            /\ (Succeeded(c) = {}) => c.result = c.messages
            /\ (Succeeded(c) # {}) =>
                  /\ Len(c.result) = Len(c.messages) + 1
                  /\ IsBriefing(c.result[1])
                  /\ \A f \in Fetchers :
                        Contains(c.result[1].content, SectionTitle(f))
                            <=> f \in Succeeded(c)

\* C12 witness: for "Mars weather" the planetary-weather fetcher failed, the
\* alerts fetcher was still called and succeeded, and a briefing was prepended.
C12_Witness ==
    \E c \in EnhCalls :
        /\ c.calls = <<"mars_weather", "space_weather">>
        /\ c.payloads = <<"error", "ok">>
        /\ Len(c.result) = Len(c.messages) + 1

\* the newest user-role message of a conversation has empty content
NewestUserMessageEmpty(messages) ==
    \E i \in 1..Len(messages) :
        /\ messages[i].role = "user"
        /\ messages[i].content = <<>>
        /\ \A j \in (i + 1)..Len(messages) : messages[j].role # "user"

\* C13: when the newest user message is empty, generate_reply returns "No
\* user message found" with no outbound call and the enricher returns the
\* conversation unmodified with no fetcher call, whatever older user
\* messages hold.
C13_OnlyNewestUserMessage ==
    /\ \A g \in GenCalls :
          NewestUserMessageEmpty(g.messages) =>
              /\ ~g.raised
              /\ g.text = NoUserMessageFound
              /\ g.fetches = <<>>
              /\ g.chats = <<>>
    /\ \A c \in EnhCalls :
          NewestUserMessageEmpty(c.messages) =>
              c.result = c.messages /\ c.calls = <<>>

\* C13 witness: a streamed request whose newest user message is empty, above
\* an older user message with keywords, went through the enricher and, on the
\* fallback, through generate_reply without one fetcher call.
C13_Witness ==
    /\ StreamDone /\ streamFailed
    /\ request.messages = << [role |-> "user", content |-> <<"M","a","r","s"," ","w","e","a","t","h","e","r">>],
                            [role |-> "user", content |-> <<>>] >>
    /\ Len(enhLog) = 1 /\ enhLog[1].result = request.messages
    /\ Len(genLog) = 1 /\ genLog[1].text = NoUserMessageFound
    /\ fetchLog = <<>>

=============================================================================
